---- MODULE Spec2Model ----
(***************************************************************************)
(* LoadingInteractionManager (Digigami loading interaction manager): the   *)
(* timed interaction scheduler.  One manager object, its two kinds of      *)
(* timers (setInterval / setTimeout), the wall clock and the callbacks it  *)
(* invokes.                                                                *)
(***************************************************************************)
EXTENDS Integers, Sequences, FiniteSets, TLC

VARIABLES
    now,            \* Date.now()
    character,      \* this.character
    startTime,      \* this.startTime (0 stands for null: both are falsy and both subtract as 0)
    currentPhase,   \* this.currentPhase ("none" stands for null)
    usedInteractions, \* this.usedInteractions: Set of `${prefix}-${idx}` strings
    intervalId,     \* this.intervalId (0 stands for null)
    isActive,       \* this.isActive
    content,        \* this.content
    intervals,      \* live setInterval timers: records [id, due]
    timeouts,       \* pending setTimeout timers: records [id, due, live]; live says that
                    \* the session that scheduled it has been neither stopped nor restarted
    fired,          \* history: phases whose entry action ran since the latest start()
    selected,       \* history: <<tag, idx>> of dedup draws reported through onInteraction since the latest start()
    op,             \* history: the operation performed by the last step (raised: the
                    \* callback that threw in it, "" if none did)
    calls,          \* history: the callbacks invoked by the last step, in order
    lastStop,       \* history: what the latest stop() since the latest start() returned
    started,        \* history: start() has been called
    pickArr,        \* SpecPick: the array handed to _pickUnused
    pickPrefix,     \* SpecPick: the prefix handed to _pickUnused
    pickLog         \* SpecPick: what each _pickUnused call so far returned

pickVars == <<pickArr, pickPrefix, pickLog>>

vars == <<now, character, startTime, currentPhase, usedInteractions, intervalId,
          isActive, content, intervals, timeouts, fired,
          selected, op, calls, lastStop, started, pickVars>>

(***************************************************************************)
(* Bounds of the model.                                                    *)
(***************************************************************************)
MaxTimers == 2      \* start() is not called while that many timers of a kind exist
MaxRand == 1        \* random indices tried per draw in Spec: the MaxRand lowest
MaxLen == 3         \* longest list handed to _pickUnused in SpecPick

(***************************************************************************)
(* Program constants.                                                      *)
(***************************************************************************)
TickInterval == 1000
EngageDelay == 500
MicroMin == 0
TipMin == 5000
FactMin == 15000
VerifyMin == 30000
DiscoverMin == 60000

\* The clock readings the model lets Date.now() take (ms after the epoch
\* offset; Date.now() is never 0).
Epoch == 1000 * 1000
Offsets == {0, 1000, 5000, 20000, 30000, 60000, 61000}
Clock == {Epoch + d : d \in Offsets}

\* A timer armed for clock reading t fires at the first reading of the model's
\* clock that is not before t; due = 0 says that reading has been reached.
DueAt(t) == IF \E c \in Clock : c >= t THEN CHOOSE c \in Clock : c >= t /\ \A d \in Clock : d >= t => c <= d ELSE t
Elapse(timer, t) == IF timer.due <= t THEN [timer EXCEPT !.due = 0] ELSE timer

Characters == {"kyur", "gwynn"}

\* the table with the ranges of tip and fact exchanged
phasesTipFactSwapped ==
    << [name |-> "micro",    min |-> MicroMin,    bounded |-> TRUE,  max |-> TipMin],
       [name |-> "tip",      min |-> FactMin,     bounded |-> TRUE,  max |-> VerifyMin],
       [name |-> "fact",     min |-> TipMin,      bounded |-> TRUE,  max |-> FactMin],
       [name |-> "verify",   min |-> VerifyMin,   bounded |-> TRUE,  max |-> DiscoverMin],
       [name |-> "discover", min |-> DiscoverMin, bounded |-> FALSE, max |-> 0] >>

(***************************************************************************)
(* The phase table, in Object.entries order.                               *)
(***************************************************************************)
phases ==
    << [name |-> "micro",    min |-> MicroMin,    bounded |-> TRUE,  max |-> TipMin],
       [name |-> "tip",      min |-> TipMin,      bounded |-> TRUE,  max |-> FactMin],
       [name |-> "fact",     min |-> FactMin,     bounded |-> TRUE,  max |-> VerifyMin],
       [name |-> "verify",   min |-> VerifyMin,   bounded |-> TRUE,  max |-> DiscoverMin],
       [name |-> "discover", min |-> DiscoverMin, bounded |-> FALSE, max |-> 0] >>

PhaseNames == {"micro", "tip", "fact", "verify", "discover"}

\* elapsed > range.min in place of elapsed >= range.min
InRangeExclusiveMin(elapsed, range) ==
    /\ elapsed > range.min
    /\ (range.bounded => elapsed < range.max)

\* a test that no range without an upper bound passes
InRangeBounded(elapsed, range) ==
    /\ elapsed >= range.min
    /\ range.bounded /\ elapsed < range.max

\* elapsed >= range.min && elapsed < range.max   (max may be Infinity)
InRange(elapsed, range) ==
    /\ elapsed >= range.min
    /\ (range.bounded => elapsed < range.max)

Min(S) == CHOOSE m \in S : \A n \in S : m <= n

\* a lookup that moves to the phase after the current one once its time has come
FindPhaseStepwise(elapsed) ==
    LET at   == {i \in 1..Len(phases) : phases[i].name = currentPhase}
        next == IF at = {} THEN 1 ELSE Min(at) + 1
    IN  IF next <= Len(phases) /\ elapsed >= phases[next].min
        THEN phases[next].name
        ELSE currentPhase

\* the for..of loop with break of _checkPhase: the first entry that matches
FindPhase(elapsed) ==
    LET hits == {i \in 1..Len(phases) : InRange(elapsed, phases[i])}
    IN  IF hits = {} THEN "none" ELSE phases[Min(hits)].name

(***************************************************************************)
(* Content.                                                                *)
(***************************************************************************)
DefaultContent ==
    [ microPoses |->
        [ default  |-> <<"thinking", "excited", "default">>,
          kyur     |-> <<"thinking", "excited", "pointing", "default">>,
          gwynn    |-> <<"hammer-swing", "standing", "neutral", "jumping">>,
          urahara  |-> <<"fan", "cane", "thinking", "default">>,
          yoroiche |-> <<"power", "standing", "kick", "default">> ],
      tips |->
        [ default |-> <<"d-tip0", "d-tip1", "d-tip2", "d-tip3", "d-tip4">>,
          kyur    |-> <<"k-tip0", "k-tip1", "k-tip2", "k-tip3", "k-tip4">>,
          gwynn   |-> <<"g-tip0", "g-tip1", "g-tip2", "g-tip3", "g-tip4">> ],
      funFacts |->
        [ default |-> <<"d-fact0", "d-fact1", "d-fact2", "d-fact3", "d-fact4">>,
          kyur    |-> <<"k-fact0", "k-fact1", "k-fact2", "k-fact3", "k-fact4">> ],
      verifications |->
        << [question |-> "q-timezone", field |-> "timezone"],
           [question |-> "q-remember", field |-> "remember_preference"],
           [question |-> "q-project",  field |-> "project_name"],
           [question |-> "q-style",    field |-> "response_style"] >>,
      features |->
        << [id |-> "security_scan",    prompt |-> "p-security"],
           [id |-> "code_cleanup",     prompt |-> "p-cleanup"],
           [id |-> "dependency_check", prompt |-> "p-dependency"],
           [id |-> "performance_tips", prompt |-> "p-performance"],
           [id |-> "backup_reminder",  prompt |-> "p-backup"] >> ]

\* The objects the model hands to loadContent().
Partials ==
    { [ microPoses |-> [kyur |-> << >>, default |-> <<"wave">>],
        tips |-> [gwynn |-> <<"x", "x">>],
        funFacts |-> [default |-> <<"", "f">>],
        verifications |-> << >> ] }

\* a merge that keeps the entries of the old category the new one lacks
SpreadDeep(old, new) ==
    [k \in DOMAIN old \cup DOMAIN new |->
        IF k \in DOMAIN new /\ k \in DOMAIN old /\ k \in {"microPoses", "tips", "funFacts"}
        THEN [c \in DOMAIN old[k] \cup DOMAIN new[k] |->
                 IF c \in DOMAIN new[k] THEN new[k][c] ELSE old[k][c]]
        ELSE IF k \in DOMAIN new THEN new[k] ELSE old[k]]

\* { ...this.content, ...content }
Spread(old, new) ==
    [k \in DOMAIN old \cup DOMAIN new |-> IF k \in DOMAIN new THEN new[k] ELSE old[k]]

\* a lookup that prefers the default list
ResolveDefaultFirst(category, char) ==
    IF "default" \in DOMAIN category THEN [defined |-> TRUE, list |-> category["default"]]
    ELSE IF char \in DOMAIN category THEN [defined |-> TRUE, list |-> category[char]]
    ELSE [defined |-> FALSE, list |-> << >>]

\* this.content.<category>[this.character] || this.content.<category>.default
\* (a present list, even an empty one, is truthy; a missing key is undefined)
Resolve(category, char) ==
    IF char \in DOMAIN category THEN [defined |-> TRUE, list |-> category[char]]
    ELSE IF "default" \in DOMAIN category THEN [defined |-> TRUE, list |-> category["default"]]
    ELSE [defined |-> FALSE, list |-> << >>]

(***************************************************************************)
(* Callback invocations, as recorded in `calls`.                           *)
(***************************************************************************)
\* a _triggerPose that names every pose after the default character
TriggerPoseDefaultCharacter(char, pose) ==
    [cb |-> "onPoseChange", fullPose |-> "kyur" \o "-" \o pose, pose |-> pose]

\* _triggerPose: this.onPoseChange(`${this.character}-${pose}`, pose)
TriggerPose(char, pose) ==
    [cb |-> "onPoseChange", fullPose |-> char \o "-" \o pose, pose |-> pose]

\* this.onInteraction({type, pose, message, field?/feature?}); a null message is << >>
Interaction(type, pose, message, extra) ==
    [cb |-> "onInteraction", type |-> type, pose |-> pose, message |-> message, extra |-> extra]

VerificationRequest(item) == [cb |-> "onVerificationRequest", item |-> item]
FeatureDiscovery(item) == [cb |-> "onFeatureDiscovery", item |-> item]

(***************************************************************************)
(* Selection.  The random number is an input r: the index                  *)
(* Math.floor(Math.random() * arr.length).                                 *)
(***************************************************************************)
\* Spec tries the MaxRand lowest indices; SpecPick tries every index.
Rands(n) == IF n = 0 THEN {0} ELSE {r \in 0..(n - 1) : r < MaxRand}

\* `${prefix}-${i}`
Key(prefix, i) == prefix \o "-" \o ToString(i)

\* arr.filter((_, i) => !used.has(`${prefix}-${i}`)), as the 0-based positions kept
UnusedPositions(arr, prefix, used) ==
    SelectSeq([i \in 1..Len(arr) |-> i - 1], LAMBDA i : Key(prefix, i) \notin used)

Unused(arr, prefix, used) ==
    LET pos == UnusedPositions(arr, prefix, used)
    IN  [k \in 1..Len(pos) |-> arr[pos[k] + 1]]

\* arr.indexOf(v): the first 0-based position holding v (v is an element of arr)
IndexOf(arr, v) == Min({i \in 0..(Len(arr) - 1) : arr[i + 1] = v})

\* a _pickUnused that replaces the set by the new key instead of adding to it
PickUnusedReplaces(arr, prefix, used, r) ==
    LET unused == Unused(arr, prefix, used)
    IN  IF Len(unused) = 0
        THEN [found |-> FALSE, idx |-> 0, used |-> used]
        ELSE LET idx == IndexOf(arr, unused[r + 1])
             IN  [found |-> TRUE, idx |-> idx, used |-> {Key(prefix, idx)}]

\* _pickUnused(arr, prefix) with random index r: found = FALSE is the null return,
\* otherwise the item returned is arr[idx]
PickUnused(arr, prefix, used, r) ==
    LET unused == Unused(arr, prefix, used)
    IN  IF Len(unused) = 0
        THEN [found |-> FALSE, idx |-> 0, used |-> used]
        ELSE LET idx == IndexOf(arr, unused[r + 1])
             IN  [found |-> TRUE, idx |-> idx, used |-> used \cup {Key(prefix, idx)}]

\* truthiness of a string item
Truthy(item) == item # ""

(***************************************************************************)
(* The _trigger* methods.  Each yields the effect of the call: the new     *)
(* usedInteractions, the callbacks invoked, whether a TypeError was        *)
(* thrown, the dedup draws made (draws) and those reported (sel).          *)
(***************************************************************************)
Effect(used, cs, threw, draws, sel) ==
    [used |-> used, calls |-> cs, threw |-> threw, draws |-> draws, sel |-> sel]

\* a micro draw that records its position the way _pickUnused does
TriggerMicroInteractionRecords(char, cont, used, r) ==
    LET poses == Resolve(cont.microPoses, char)
        pose  == IF Len(poses.list) = 0 THEN "undefined" ELSE poses.list[r + 1]
    IN  IF ~poses.defined
        THEN Effect(used, << >>, TRUE, << >>, << >>)
        ELSE Effect(used \cup {Key("micro", r)},
                    << TriggerPose(char, pose), Interaction("micro", pose, << >>, << >>) >>,
                    FALSE, << >>, << >>)

\* _triggerMicroInteraction; _pickRandom(undefined) throws, _pickRandom([]) is undefined
TriggerMicroInteraction(char, cont, used, r) ==
    LET poses == Resolve(cont.microPoses, char)
        pose  == IF Len(poses.list) = 0 THEN "undefined" ELSE poses.list[r + 1]
    IN  IF ~poses.defined
        THEN Effect(used, << >>, TRUE, << >>, << >>)
        ELSE Effect(used,
                    << TriggerPose(char, pose), Interaction("micro", pose, << >>, << >>) >>,
                    FALSE, << >>, << >>)

\* a draw that reports the interaction before it changes the pose
TriggerTextReportsFirst(char, category, tag, pose, used, r) ==
    LET res == Resolve(category, char)
        p   == PickUnused(res.list, tag, used, r)
    IN  IF ~res.defined
        THEN Effect(used, << >>, TRUE, << >>, << >>)
        ELSE IF p.found /\ Truthy(res.list[p.idx + 1])
        THEN Effect(p.used,
                    << Interaction(tag, pose, <<res.list[p.idx + 1]>>, << >>),
                       TriggerPose(char, pose) >>,
                    FALSE, <<tag>>, << <<tag, p.idx>> >>)
        ELSE Effect(p.used, << >>, FALSE, <<tag>>, << >>)

\* _triggerTip / _triggerFunFact: a string item, a fixed pose
TriggerText(char, category, tag, pose, used, r) ==
    LET res == Resolve(category, char)
        p   == PickUnused(res.list, tag, used, r)
    IN  IF ~res.defined
        THEN Effect(used, << >>, TRUE, << >>, << >>)
        ELSE IF p.found /\ Truthy(res.list[p.idx + 1])
        THEN Effect(p.used,
                    << TriggerPose(char, pose),
                       Interaction(tag, pose, <<res.list[p.idx + 1]>>, << >>) >>,
                    FALSE, <<tag>>, << <<tag, p.idx>> >>)
        ELSE Effect(p.used, << >>, FALSE, <<tag>>, << >>)

TriggerTip(char, cont, used, r) ==
    TriggerText(char, cont.tips, "tip", "pointing", used, r)

TriggerFunFact(char, cont, used, r) ==
    TriggerText(char, cont.funFacts, "fact", "excited", used, r)

\* a verification draw that reports an empty interaction when nothing is left
TriggerVerificationReportsNull(char, cont, used, r) ==
    LET list == cont.verifications
        p    == PickUnused(list, "verify", used, r)
    IN  IF p.found
        THEN LET v == list[p.idx + 1]
             IN  Effect(p.used,
                        << TriggerPose(char, "thinking"),
                           VerificationRequest(v),
                           Interaction("verify", "thinking", <<v.question>>, <<"field", v.field>>) >>,
                        FALSE, <<"verify">>, << <<"verify", p.idx>> >>)
        ELSE Effect(p.used,
                    << TriggerPose(char, "thinking"),
                       Interaction("verify", "thinking", << >>, << >>) >>,
                    FALSE, <<"verify">>, << >>)

\* _triggerVerification
TriggerVerification(char, cont, used, r) ==
    LET list == cont.verifications
        p    == PickUnused(list, "verify", used, r)
    IN  IF p.found
        THEN LET v == list[p.idx + 1]
             IN  Effect(p.used,
                        << TriggerPose(char, "thinking"),
                           VerificationRequest(v),
                           Interaction("verify", "thinking", <<v.question>>, <<"field", v.field>>) >>,
                        FALSE, <<"verify">>, << <<"verify", p.idx>> >>)
        ELSE Effect(p.used, << >>, FALSE, <<"verify">>, << >>)

\* a feature draw that leaves out onFeatureDiscovery
TriggerFeatureDiscoverySilent(char, cont, used, r) ==
    LET list == cont.features
        p    == PickUnused(list, "discover", used, r)
    IN  IF p.found
        THEN LET f == list[p.idx + 1]
             IN  Effect(p.used,
                        << TriggerPose(char, "pointing"),
                           Interaction("discover", "pointing", <<f.prompt>>, <<"feature", f.id>>) >>,
                        FALSE, <<"discover">>, << <<"discover", p.idx>> >>)
        ELSE Effect(p.used, << >>, FALSE, <<"discover">>, << >>)

\* _triggerFeatureDiscovery
TriggerFeatureDiscovery(char, cont, used, r) ==
    LET list == cont.features
        p    == PickUnused(list, "discover", used, r)
    IN  IF p.found
        THEN LET f == list[p.idx + 1]
             IN  Effect(p.used,
                        << TriggerPose(char, "pointing"),
                           FeatureDiscovery(f),
                           Interaction("discover", "pointing", <<f.prompt>>, <<"feature", f.id>>) >>,
                        FALSE, <<"discover">>, << <<"discover", p.idx>> >>)
        ELSE Effect(p.used, << >>, FALSE, <<"discover">>, << >>)

\* _triggerPhaseInteraction: the switch
TriggerPhaseInteraction(phase, char, cont, used, r) ==
    CASE phase = "micro"    -> TriggerMicroInteraction(char, cont, used, r)
      [] phase = "tip"      -> TriggerTip(char, cont, used, r)
      [] phase = "fact"     -> TriggerFunFact(char, cont, used, r)
      [] phase = "verify"   -> TriggerVerification(char, cont, used, r)
      [] phase = "discover" -> TriggerFeatureDiscovery(char, cont, used, r)
      [] OTHER              -> Effect(used, << >>, FALSE, << >>, << >>)

\* how many values the random index of the draw of `phase` can take
Choices(phase, char, cont, used) ==
    CASE phase = "micro"    -> Len(Resolve(cont.microPoses, char).list)
      [] phase = "tip"      -> Len(Unused(Resolve(cont.tips, char).list, "tip", used))
      [] phase = "fact"     -> Len(Unused(Resolve(cont.funFacts, char).list, "fact", used))
      [] phase = "verify"   -> Len(Unused(cont.verifications, "verify", used))
      [] phase = "discover" -> Len(Unused(cont.features, "discover", used))
      [] OTHER              -> 0

(***************************************************************************)
(* The history record of a step.                                           *)
(***************************************************************************)
NoRet == [duration |-> 0, interactionsShown |-> 0, phase |-> "none"]

\* no stop() since the latest start() (or since construction)
NoStop == [done |-> FALSE, interactionsShown |-> 0, phase |-> "none"]

Op(name) ==
    [name |-> name, arg |-> "", raised |-> "", elapsed |-> 0, prevPhase |-> currentPhase, wasActive |-> isActive,
     prevUsed |-> Cardinality(usedInteractions), fired |-> "none", draws |-> << >>, threw |-> FALSE, live |-> FALSE, ret |-> NoRet]

(***************************************************************************)
(* Initial state: the constructor with no options.                         *)
(***************************************************************************)
Constructed ==
    /\ now = Epoch
    /\ character = "kyur"
    /\ startTime = 0
    /\ currentPhase = "none"
    /\ usedInteractions = {}
    /\ intervalId = 0
    /\ isActive = FALSE
    /\ content = DefaultContent
    /\ intervals = {}
    /\ timeouts = {}
    /\ fired = << >>
    /\ selected = << >>
    /\ op = [name |-> "init", arg |-> "", raised |-> "", elapsed |-> 0, prevPhase |-> "none", wasActive |-> FALSE,
             prevUsed |-> 0, fired |-> "none", draws |-> << >>, threw |-> FALSE, live |-> FALSE, ret |-> NoRet]
    /\ calls = << >>
    /\ lastStop = NoStop
    /\ started = FALSE

Init ==
    /\ Constructed
    /\ pickArr = << >>
    /\ pickPrefix = ""
    /\ pickLog = << >>

\* a getElapsed without the test of startTime
GetElapsedUntested == now - startTime

\* getElapsed()
GetElapsed == IF startTime # 0 THEN now - startTime ELSE 0

\* the test without its second half
PhaseChangedAlways(newPhase, cur) == newPhase # "none"

\* the test of _checkPhase: newPhase && newPhase !== this.currentPhase
PhaseChanged(newPhase, cur) == newPhase # "none" /\ newPhase # cur

\* this.usedInteractions.clear()
ClearNothing(set) == set
Clear(set) == {}

\* this.currentPhase = null
KeepPhase(cur) == cur
ResetPhase(cur) == "none"

(***************************************************************************)
(* start().  A new timer takes the lowest id no timer of its kind holds.   *)
(***************************************************************************)
NewId(timers) == Min({n \in 1..(Cardinality(timers) + 1) : \A t \in timers : t.id # n})

\* a start() that runs the engagement draw itself instead of scheduling it
StartEngagesAtOnce ==
    /\ Cardinality(intervals) < MaxTimers
    /\ Cardinality(timeouts) < MaxTimers
    /\ startTime' = now
    /\ currentPhase' = ResetPhase(currentPhase)
    /\ usedInteractions' = Clear(usedInteractions)
    /\ isActive' = TRUE
    /\ calls' = << TriggerPose(character, "thinking") >>
                    \o TriggerMicroInteraction(character, content, {}, 0).calls
    /\ intervalId' = NewId(intervals)
    /\ intervals' = intervals \cup {[id |-> NewId(intervals), due |-> DueAt(now + TickInterval)]}
    /\ timeouts' = {[t EXCEPT !.live = FALSE] : t \in timeouts}
                    \cup {[id |-> NewId(timeouts), due |-> DueAt(now + EngageDelay), live |-> TRUE]}
    /\ fired' = << >>
    /\ selected' = << >>
    /\ op' = Op("start")
    /\ lastStop' = NoStop
    /\ started' = TRUE
    /\ UNCHANGED <<now, character, content>>
    /\ UNCHANGED pickVars

Start ==
    /\ Cardinality(intervals) < MaxTimers
    /\ Cardinality(timeouts) < MaxTimers
    /\ startTime' = now
    /\ currentPhase' = ResetPhase(currentPhase)
    /\ usedInteractions' = Clear(usedInteractions)
    /\ isActive' = TRUE
    /\ calls' = << TriggerPose(character, "thinking") >>
    /\ intervalId' = NewId(intervals)
    /\ intervals' = intervals \cup {[id |-> NewId(intervals), due |-> DueAt(now + TickInterval)]}
    /\ timeouts' = {[t EXCEPT !.live = FALSE] : t \in timeouts}
                    \cup {[id |-> NewId(timeouts), due |-> DueAt(now + EngageDelay), live |-> TRUE]}
    /\ fired' = << >>
    /\ selected' = << >>
    /\ op' = Op("start")
    /\ lastStop' = NoStop
    /\ started' = TRUE
    /\ UNCHANGED <<now, character, content>>
    /\ UNCHANGED pickVars

(***************************************************************************)
(* stop()                                                                  *)
(***************************************************************************)
\* a clearInterval that, handed null, cancels the timer with the lowest id
ClearIntervalAny(timers, id) ==
    IF id # 0 THEN {i \in timers : i.id # id}
    ELSE {i \in timers : \E j \in timers : j.id < i.id}

\* if (this.intervalId) clearInterval(this.intervalId)
ClearInterval(timers, id) ==
    IF id # 0 THEN {i \in timers : i.id # id} ELSE timers

\* a summary that counts the phases entered
StopSummaryCountsPhases ==
    [duration |-> now - startTime,
     interactionsShown |-> Len(fired),
     phase |-> currentPhase]

\* the object stop() returns
StopSummary ==
    [duration |-> now - startTime,
     interactionsShown |-> Cardinality(usedInteractions),
     phase |-> currentPhase]

\* a stop() that emits the terminal pose only when it ends a session
StopSilentWhenInactive ==
    /\ isActive' = FALSE
    /\ intervals' = ClearInterval(intervals, intervalId)
    /\ intervalId' = 0
    /\ calls' = IF isActive THEN << TriggerPose(character, "excited") >> ELSE << >>
    /\ op' = [Op("stop") EXCEPT !.ret = StopSummary]
    /\ lastStop' = [done |-> TRUE, interactionsShown |-> StopSummary.interactionsShown,
                    phase |-> StopSummary.phase]
    /\ timeouts' = {[t EXCEPT !.live = FALSE] : t \in timeouts}
    /\ UNCHANGED <<now, character, startTime, currentPhase, usedInteractions, content,
                   fired, selected, started>>
    /\ UNCHANGED pickVars

Stop ==
    /\ isActive' = FALSE
    /\ intervals' = ClearInterval(intervals, intervalId)
    /\ intervalId' = 0
    /\ calls' = << TriggerPose(character, "excited") >>
    /\ op' = [Op("stop") EXCEPT !.ret = StopSummary]
    /\ lastStop' = [done |-> TRUE, interactionsShown |-> StopSummary.interactionsShown,
                    phase |-> StopSummary.phase]
    /\ timeouts' = {[t EXCEPT !.live = FALSE] : t \in timeouts}
    /\ UNCHANGED <<now, character, startTime, currentPhase, usedInteractions, content,
                   fired, selected, started>>
    /\ UNCHANGED pickVars

(***************************************************************************)
(* A setInterval timer fires: _checkPhase().                               *)
(***************************************************************************)
\* a _checkPhase without its first line
CheckPhaseRunsAlways(active) == TRUE

\* if (!this.isActive) return;
CheckPhaseRuns(active) == active

Tick(i) ==
    /\ i \in intervals
    /\ now >= i.due
    /\ intervals' = (intervals \ {i}) \cup {[i EXCEPT !.due = DueAt(now + TickInterval)]}
    /\ IF ~CheckPhaseRuns(isActive)
       THEN /\ op' = Op("tick")
            /\ calls' = << >>
            /\ UNCHANGED <<currentPhase, usedInteractions, fired, selected>>
       ELSE LET elapsed  == GetElapsed
                newPhase == FindPhase(elapsed)
            IN  IF PhaseChanged(newPhase, currentPhase)
                THEN \E r \in Rands(Choices(newPhase, character, content, usedInteractions)) :
                        LET eff == TriggerPhaseInteraction(newPhase, character, content,
                                                           usedInteractions, r)
                        IN  /\ currentPhase' = newPhase
                            /\ usedInteractions' = eff.used
                            /\ calls' = eff.calls
                            /\ fired' = Append(fired, newPhase)
                            /\ selected' = selected \o eff.sel
                            /\ op' = [Op("tick") EXCEPT !.elapsed = elapsed,
                                                        !.fired = newPhase,
                                                        !.draws = eff.draws,
                                                        !.threw = eff.threw]
                ELSE /\ op' = [Op("tick") EXCEPT !.elapsed = elapsed]
                     /\ calls' = << >>
                     /\ UNCHANGED <<currentPhase, usedInteractions, fired, selected>>
    /\ UNCHANGED <<now, character, startTime, intervalId, isActive, content, timeouts, lastStop, started>>
    /\ UNCHANGED pickVars

(***************************************************************************)
(* A setTimeout timer fires: if (this.isActive) _triggerMicroInteraction() *)
(***************************************************************************)
\* a callback without its test
EngageRunsAlways(active) == TRUE

\* if (this.isActive) ...
EngageRuns(active) == active

FireTimeout(t) ==
    /\ t \in timeouts
    /\ now >= t.due
    /\ timeouts' = timeouts \ {t}
    /\ IF EngageRuns(isActive)
       THEN \E r \in Rands(Choices("micro", character, content, usedInteractions)) :
                LET eff == TriggerMicroInteraction(character, content, usedInteractions, r)
                IN  /\ calls' = eff.calls
                    /\ usedInteractions' = eff.used
                    /\ op' = [Op("timeout") EXCEPT !.live = t.live, !.threw = eff.threw]
       ELSE /\ calls' = << >>
            /\ op' = [Op("timeout") EXCEPT !.live = t.live]
            /\ UNCHANGED usedInteractions
    /\ UNCHANGED <<now, character, startTime, currentPhase, intervalId, isActive, content,
                   intervals, fired, selected, lastStop, started>>
    /\ UNCHANGED pickVars

\* a setCharacter that also forgets the phase reached
SetCharacterResetsPhase(c) ==
    /\ character' = c
    /\ currentPhase' = "none"
    /\ IF isActive
       THEN \E r \in Rands(Choices("micro", c, content, usedInteractions)) :
                LET eff == TriggerMicroInteraction(c, content, usedInteractions, r)
                IN  /\ calls' = eff.calls
                    /\ usedInteractions' = eff.used
                    /\ op' = [Op("setCharacter") EXCEPT !.arg = c, !.threw = eff.threw]
       ELSE /\ calls' = << >>
            /\ op' = [Op("setCharacter") EXCEPT !.arg = c]
            /\ UNCHANGED usedInteractions
    /\ UNCHANGED <<now, startTime, intervalId, isActive, content, intervals,
                   timeouts, fired, selected, lastStop, started>>
    /\ UNCHANGED pickVars

\* a setCharacter that draws whether a session is active or not
SetCharacterDrawsAlways(c) ==
    /\ character' = c
    /\ \E r \in Rands(Choices("micro", c, content, usedInteractions)) :
          LET eff == TriggerMicroInteraction(c, content, usedInteractions, r)
          IN  /\ calls' = eff.calls
              /\ usedInteractions' = eff.used
              /\ op' = [Op("setCharacter") EXCEPT !.arg = c, !.threw = eff.threw]
    /\ UNCHANGED <<now, startTime, currentPhase, intervalId, isActive, content, intervals,
                   timeouts, fired, selected, lastStop, started>>
    /\ UNCHANGED pickVars

(***************************************************************************)
(* setCharacter(c)                                                         *)
(***************************************************************************)
SetCharacter(c) ==
    /\ character' = c
    /\ IF isActive
       THEN \E r \in Rands(Choices("micro", c, content, usedInteractions)) :
                LET eff == TriggerMicroInteraction(c, content, usedInteractions, r)
                IN  /\ calls' = eff.calls
                    /\ usedInteractions' = eff.used
                    /\ op' = [Op("setCharacter") EXCEPT !.arg = c, !.threw = eff.threw]
       ELSE /\ calls' = << >>
            /\ op' = [Op("setCharacter") EXCEPT !.arg = c]
            /\ UNCHANGED usedInteractions
    /\ UNCHANGED <<now, startTime, currentPhase, intervalId, isActive, content, intervals,
                   timeouts, fired, selected, lastStop, started>>
    /\ UNCHANGED pickVars

(***************************************************************************)
(* loadContent(partial)                                                    *)
(***************************************************************************)
LoadContent(partial) ==
    /\ content' = Spread(content, partial)
    /\ calls' = << >>
    /\ op' = Op("loadContent")
    /\ UNCHANGED <<now, character, startTime, currentPhase, usedInteractions, intervalId,
                   isActive, intervals, timeouts, fired, selected, lastStop, started>>
    /\ UNCHANGED pickVars

(***************************************************************************)
(* The wall clock moves on to its next reading (it is read, never set, by   *)
(* the manager).  A setTimeout callback that is due runs before the clock   *)
(* reaches the next reading; setInterval callbacks may be late or skipped.  *)
(***************************************************************************)
Advance(t) ==
    /\ t > now
    /\ \A c \in Clock : c > now => t <= c
    /\ \A x \in timeouts : x.due > now
    /\ now' = t
    /\ calls' = << >>
    /\ op' = Op("advance")
    /\ intervals' = {Elapse(i, t) : i \in intervals}
    /\ timeouts' = {Elapse(i, t) : i \in timeouts}
    /\ UNCHANGED <<character, startTime, currentPhase, usedInteractions, intervalId,
                   isActive, content, fired, selected, lastStop, started>>
    /\ UNCHANGED pickVars

(***************************************************************************)
(* getElapsed() called from outside                                        *)
(***************************************************************************)
GetElapsedCall ==
    /\ op' = [Op("getElapsed") EXCEPT !.ret = [NoRet EXCEPT !.duration = GetElapsed]]
    /\ calls' = << >>
    /\ UNCHANGED <<now, character, startTime, currentPhase, usedInteractions, intervalId,
                   isActive, content, intervals, timeouts, fired, selected, lastStop, started>>
    /\ UNCHANGED pickVars

Next ==
    \/ Start
    \/ Stop
    \/ GetElapsedCall
    \/ \E i \in intervals : Tick(i)
    \/ \E t \in timeouts : FireTimeout(t)
    \/ \E c \in Characters : SetCharacter(c)
    \/ \E partial \in Partials : LoadContent(partial)
    \/ \E t \in Clock : Advance(t)

Spec == Init /\ [][Next]_vars

(***************************************************************************)
(* SpecThrow: sessions whose callbacks may throw during a phase-entry      *)
(* action.  TickThrows(i) is a tick that enters a phase and one of whose    *)
(* callback invocations, the k-th, throws: nothing in _checkPhase or the   *)
(* _trigger* methods catches it, so the statements before the invocation   *)
(* have run and those after it have not.                                   *)
(***************************************************************************)
\* a core that catches the exception and takes the transition back
RolledBack(newPhase, cur) == cur

\* this.currentPhase = newPhase, run before _triggerPhaseInteraction(newPhase)
Committed(newPhase, cur) == newPhase

TickThrows(i) ==
    /\ i \in intervals
    /\ now >= i.due
    /\ isActive
    /\ intervals' = (intervals \ {i}) \cup {[i EXCEPT !.due = DueAt(now + TickInterval)]}
    /\ LET elapsed  == GetElapsed
           newPhase == FindPhase(elapsed)
       IN  /\ PhaseChanged(newPhase, currentPhase)
           /\ \E r \in Rands(Choices(newPhase, character, content, usedInteractions)) :
                 LET eff == TriggerPhaseInteraction(newPhase, character, content,
                                                    usedInteractions, r)
                 IN  /\ ~eff.threw
                     /\ \E k \in 1..Len(eff.calls) :
                           /\ currentPhase' = Committed(newPhase, currentPhase)
                           /\ usedInteractions' = eff.used
                           /\ calls' = SubSeq(eff.calls, 1, k)
                           /\ fired' = Append(fired, newPhase)
                           /\ selected' = IF k = Len(eff.calls)
                                          THEN selected \o eff.sel ELSE selected
                           /\ op' = [Op("tick") EXCEPT !.elapsed = elapsed,
                                                       !.fired = newPhase,
                                                       !.draws = eff.draws,
                                                       !.raised = eff.calls[k].cb]
    /\ UNCHANGED <<now, character, startTime, intervalId, isActive, content, timeouts, lastStop, started>>
    /\ UNCHANGED pickVars

NextThrow ==
    \/ Start
    \/ Stop
    \/ \E i \in intervals : Tick(i)
    \/ \E i \in intervals : TickThrows(i)
    \/ \E t \in timeouts : FireTimeout(t)
    \/ \E t \in Clock : Advance(t)

SpecThrow == Init /\ [][NextThrow]_vars

(***************************************************************************)
(* SpecLive: one session that is never stopped or restarted, with content *)
(* loaded at any moment.  The clock moves on as long as it has a next      *)
(* reading, and a timer that is due runs eventually (the event loop is not *)
(* starved).                                                               *)
(***************************************************************************)
\* start() is called once, while the clock still has a reading DiscoverMin later
StartOnce ==
    /\ ~started
    /\ \E c \in Clock : c - now >= DiscoverMin
    /\ Start

NextLive ==
    \/ StartOnce
    \/ \E i \in intervals : Tick(i)
    \/ \E t \in timeouts : FireTimeout(t)
    \/ \E partial \in Partials : LoadContent(partial)
    \/ \E t \in Clock : Advance(t)

SpecLive ==
    /\ Init
    /\ [][NextLive]_vars
    /\ WF_vars(\E t \in Clock : Advance(t))
    /\ WF_vars(\E i \in intervals : Tick(i))
    /\ WF_vars(\E t \in timeouts : FireTimeout(t))

(***************************************************************************)
(* SpecPick: _pickUnused on its own.  Any array of at most MaxLen items    *)
(* (equal items allowed), any prefix, an empty usedInteractions, and then  *)
(* call after call with every random index the array allows.               *)
(***************************************************************************)
Items == {"a", "b"}

Arrays == UNION {[1..n -> Items] : n \in 0..MaxLen}

InitPick ==
    /\ Constructed
    /\ pickArr \in Arrays
    /\ pickPrefix \in {"tip", "verify"}
    /\ pickLog = << >>

\* a draw that takes the item out of the array (splice)
PickStepSplices(r) ==
    /\ Len(pickLog) <= MaxLen
    /\ r < Len(Unused(pickArr, pickPrefix, usedInteractions)) \/ r = 0
    /\ LET p == PickUnused(pickArr, pickPrefix, usedInteractions, r)
       IN  /\ usedInteractions' = p.used
           /\ pickLog' = Append(pickLog, [found |-> p.found, idx |-> p.idx,
                                          before |-> usedInteractions])
           /\ pickArr' = IF p.found
                         THEN SubSeq(pickArr, 1, p.idx) \o SubSeq(pickArr, p.idx + 2, Len(pickArr))
                         ELSE pickArr
    /\ UNCHANGED <<now, character, startTime, currentPhase, intervalId, isActive, content,
                   intervals, timeouts, fired, selected, op, calls, lastStop, started, pickPrefix>>

PickStep(r) ==
    /\ Len(pickLog) <= Len(pickArr)
    /\ r < Len(Unused(pickArr, pickPrefix, usedInteractions)) \/ r = 0
    /\ LET p == PickUnused(pickArr, pickPrefix, usedInteractions, r)
       IN  /\ usedInteractions' = p.used
           /\ pickLog' = Append(pickLog, [found |-> p.found, idx |-> p.idx,
                                          before |-> usedInteractions])
    /\ UNCHANGED <<now, character, startTime, currentPhase, intervalId, isActive, content,
                   intervals, timeouts, fired, selected, op, calls, lastStop, started, pickArr, pickPrefix>>

NextPick == \E r \in 0..(MaxLen - 1) : PickStep(r)

SpecPick == InitPick /\ [][NextPick]_vars

(***************************************************************************)
(* Properties.                                                             *)
(***************************************************************************)
Range(seq) == {seq[i] : i \in 1..Len(seq)}

\* micro < tip < fact < verify < discover, with none (no phase entered) below all
Rank(p) ==
    CASE p = "micro" -> 1 [] p = "tip" -> 2 [] p = "fact" -> 3
      [] p = "verify" -> 4 [] p = "discover" -> 5 [] OTHER -> 0

\* C1: within a session (every step but start()), currentPhase never moves to an
\* earlier phase, and a phase it moves to was not entered before in the session.
C1_PhaseNeverRegresses ==
    [][op'.name # "start" =>
          /\ Rank(currentPhase') >= Rank(currentPhase)
          /\ (currentPhase' # currentPhase => currentPhase' \notin Range(fired))]_vars

C1_Witness ==
    currentPhase = "discover" /\ fired = <<"micro", "tip", "fact", "verify", "discover">>

\* C2: after a tick processed while active, currentPhase is the one phase of the
\* table whose [min, max) holds the elapsed time the tick read, and the tick ran
\* that phase's entry action exactly if that phase is not the phase held before it.
C2_TickSetsPhaseOfElapsed ==
    (op.name = "tick" /\ op.wasActive) =>
        \E i \in 1..Len(phases) :
            /\ phases[i].min <= op.elapsed
            /\ (phases[i].bounded => op.elapsed < phases[i].max)
            /\ \A j \in 1..Len(phases) :
                  j # i => ~(phases[j].min <= op.elapsed
                             /\ (phases[j].bounded => op.elapsed < phases[j].max))
            /\ currentPhase = phases[i].name
            /\ op.fired \in {"none", phases[i].name}
            /\ (op.fired # "none") <=> (phases[i].name # op.prevPhase)

C2_Witness ==
    /\ op.name = "tick" /\ op.wasActive
    /\ op.elapsed = TipMin /\ op.prevPhase = "micro" /\ op.fired = "tip"

\* C3: a tick runs at most one phase-entry action; a tick that finds the phase
\* micro and an elapsed time in the range of fact sets currentPhase to fact and
\* runs the fact action only; and a session in which fact was entered right after
\* micro has no tip action.
C3_OneTransitionPerTick ==
    /\ [][op'.name = "tick" =>
            /\ Len(fired') <= Len(fired) + 1
            /\ (op'.wasActive /\ currentPhase = "micro"
                  /\ op'.elapsed >= FactMin /\ op'.elapsed < VerifyMin) =>
                   /\ currentPhase' = "fact"
                   /\ fired' = Append(fired, "fact")
                   /\ \A k \in 1..Len(calls') :
                         calls'[k].cb = "onInteraction" => calls'[k].type = "fact"]_vars
    /\ [](\A k \in 1..(Len(fired) - 1) :
            (fired[k] = "micro" /\ fired[k + 1] = "fact") => "tip" \notin Range(fired))

C3_Witness ==
    /\ op.name = "tick" /\ op.fired = "fact" /\ op.prevPhase = "micro"
    /\ fired = <<"micro", "fact">>
    /\ \E k \in 1..Len(calls) : calls[k].cb = "onInteraction"

\* C4: a tick that finds currentPhase = discover leaves currentPhase and
\* usedInteractions as they are, draws nothing and invokes no callback.
C4_DiscoverIsFinal ==
    [][(op'.name = "tick" /\ currentPhase = "discover") =>
          /\ currentPhase' = "discover"
          /\ usedInteractions' = usedInteractions
          /\ op'.draws = << >>
          /\ op'.fired = "none"
          /\ calls' = << >>]_vars

C4_Witness ==
    /\ op.name = "tick" /\ op.wasActive /\ op.prevPhase = "discover"
    /\ currentPhase = "discover" /\ op.elapsed > DiscoverMin

\* C5: the phase-entry actions of a session run in strictly increasing phase order.
C5_EntriesStrictlyIncreasing ==
    \A i, j \in 1..Len(fired) : i < j => Rank(fired[i]) < Rank(fired[j])

C5_Witness == fired = <<"micro", "fact", "discover">>

\* C6: no <<tag, index>> is reported twice through onInteraction in one session.
C6_ItemSelectedAtMostOnce ==
    \A i, j \in 1..Len(selected) : i < j => selected[i] # selected[j]

C6_Witness ==
    /\ Len(selected) = 2
    /\ character = "gwynn"
    /\ content # DefaultContent
    /\ selected[1][1] = "tip"

\* C7: N calls of _pickUnused on an array of N items return N different positions,
\* and call N + 1 returns null.
C7_PickUnusedPermutation ==
    \A n \in 1..Len(pickLog) :
        /\ n <= Len(pickArr) =>
              /\ pickLog[n].found
              /\ \A m \in 1..(n - 1) : pickLog[m].idx # pickLog[n].idx
        /\ n = Len(pickArr) + 1 => ~pickLog[n].found

\* C8: right after a start() made while no session was active, usedInteractions
\* is empty and currentPhase is none, so every position of every list is a
\* candidate of its tag again.
C8_StartAfterStopIsFresh ==
    (op.name = "start" /\ ~op.wasActive) =>
        /\ usedInteractions = {}
        /\ currentPhase = "none"
        /\ \A c \in Characters :
              /\ Len(UnusedPositions(Resolve(content.tips, c).list, "tip", usedInteractions))
                    = Len(Resolve(content.tips, c).list)
              /\ Len(UnusedPositions(Resolve(content.funFacts, c).list, "fact", usedInteractions))
                    = Len(Resolve(content.funFacts, c).list)
        /\ Len(UnusedPositions(content.verifications, "verify", usedInteractions))
              = Len(content.verifications)
        /\ Len(UnusedPositions(content.features, "discover", usedInteractions))
              = Len(content.features)

C8_Witness ==
    /\ op.name = "start" /\ ~op.wasActive
    /\ op.prevUsed >= 2 /\ op.prevPhase # "none"

\* C9: right after a start() made while a session was active, usedInteractions is
\* empty, currentPhase is none, isActive holds and startTime is the time of this call.
C9_RestartResetsSession ==
    (op.name = "start" /\ op.wasActive) =>
        /\ usedInteractions = {}
        /\ currentPhase = "none"
        /\ isActive
        /\ startTime = now

C9_Witness ==
    /\ op.name = "start" /\ op.wasActive
    /\ op.prevUsed >= 2 /\ op.prevPhase = "fact" /\ now > Epoch

\* C10: no step but start() removes a key from usedInteractions.
C10_OnlyStartEmptiesUsed ==
    [][op'.name # "start" => usedInteractions \subseteq usedInteractions']_vars

C10_Witness ==
    /\ op.name = "stop" /\ op.wasActive
    /\ Cardinality(usedInteractions) = 4

DedupTags == {"tip", "fact", "verify", "discover"}

\* the keys of usedInteractions that carry the given tag
Tagged(tag, used) ==
    {k \in used : \E i \in 0..Len(DefaultContent.features) : k = Key(tag, i)}

\* the list a character-scoped category holds for the current character
ListOf(category) ==
    IF character \in DOMAIN category THEN category[character] ELSE category["default"]

\* C11: a one-shot callback that runs while the session is not active invokes no
\* callback and changes nothing of the manager's state.
C11_OneShotInactiveNoEffect ==
    [][(op'.name = "timeout" /\ ~isActive) =>
          /\ calls' = << >>
          /\ UNCHANGED <<character, startTime, currentPhase, usedInteractions,
                         intervalId, isActive, content, intervals, fired, selected>>]_vars

C11_Witness ==
    /\ op.name = "timeout" /\ ~op.wasActive
    /\ lastStop.done /\ now > startTime
    /\ timeouts = {} /\ intervals = {}

\* C12: a one-shot scheduled by a session that has since been stopped or replaced
\* by another start() never draws: its callback invokes nothing.
C12_StaleOneShotNeverDraws ==
    (op.name = "timeout" /\ ~op.live) => calls = << >>

\* C13: exactly one periodic timer is scheduled while the session is active and
\* none once stop() has returned.
C13_OneTickTimerWhileActive ==
    Cardinality(intervals) = IF isActive THEN 1 ELSE 0

\* C14: between the return of stop() and the next start(), a timer that fires
\* (periodic or one-shot, of any session) invokes no callback and leaves
\* currentPhase and usedInteractions as they are.
C14_NoTimerEffectAfterStop ==
    [][(op'.name \in {"tick", "timeout"} /\ lastStop.done) =>
          /\ calls' = << >>
          /\ currentPhase' = currentPhase
          /\ usedInteractions' = usedInteractions]_vars

C14_Witness ==
    /\ op.name = "tick" /\ lastStop.done
    /\ currentPhase = "micro" /\ now - startTime >= TipMin

\* C15: stop() sets isActive to false, returns the size of usedInteractions as
\* interactionsShown and currentPhase as phase, both as they were at the call, and
\* changes neither.
C15_StopSummary ==
    [][op'.name = "stop" =>
          /\ ~isActive'
          /\ op'.ret.interactionsShown = Cardinality(usedInteractions)
          /\ op'.ret.phase = currentPhase
          /\ usedInteractions' = usedInteractions
          /\ currentPhase' = currentPhase]_vars

C15_Witness ==
    /\ op.name = "stop" /\ op.wasActive
    /\ op.ret.interactionsShown = 3 /\ op.ret.phase = "verify"

\* C16: a stop() that follows a stop() with no start() in between leaves isActive,
\* currentPhase, usedInteractions and the timers as they are, throws nothing and
\* returns the phase and the interactionsShown the earlier stop() returned.
C16_SecondStopChangesNothing ==
    [][(op'.name = "stop" /\ lastStop.done) =>
          /\ UNCHANGED <<isActive, currentPhase, usedInteractions, intervals, timeouts>>
          /\ ~op'.threw
          /\ op'.ret.phase = lastStop.phase
          /\ op'.ret.interactionsShown = lastStop.interactionsShown]_vars

C16_Witness ==
    /\ op.name = "stop" /\ ~op.wasActive /\ lastStop.done
    /\ op.ret.interactionsShown = 2 /\ op.ret.phase = "fact"
    /\ intervals # {}

\* C17 as stated: a stop() before any tick of the session returns phase none and
\* interactionsShown 1 if the session's one-shot has fired, 0 if it has not.
C17_StopBeforeTickCountsOneShot ==
    [][(op'.name = "stop" /\ isActive /\ fired = << >>) =>
          /\ op'.ret.phase = "none"
          /\ op'.ret.interactionsShown = IF \E t \in timeouts : t.live THEN 0 ELSE 1]_vars

\* C17: a stop() before any tick of the session returns phase none and
\* interactionsShown 0, whether the session's one-shot has fired or not.
C17_StopBeforeTickCountsNothing ==
    [][(op'.name = "stop" /\ isActive /\ fired = << >>) =>
          /\ op'.ret.phase = "none"
          /\ op'.ret.interactionsShown = 0]_vars

C17_Witness ==
    /\ op.name = "stop" /\ op.wasActive /\ fired = << >>
    /\ timeouts = {} /\ now > startTime
    /\ op.ret.interactionsShown = 0 /\ op.ret.phase = "none"

\* C18: the one-shot, the micro phase-entry action and the draw of setCharacter()
\* leave usedInteractions as it is, and the interactionsShown that stop() returns
\* is the number of keys tagged tip, fact, verify or discover.
C18_AmbientDrawsLeaveUsed ==
    /\ [][(\/ op'.name \in {"timeout", "setCharacter"}
           \/ (op'.name = "tick" /\ op'.fired = "micro")) =>
             usedInteractions' = usedInteractions]_vars
    /\ [](op.name = "stop" =>
             op.ret.interactionsShown =
                 Cardinality(UNION {Tagged(tag, usedInteractions) : tag \in DedupTags}))

C18_Witness ==
    /\ op.name = "stop" /\ op.wasActive
    /\ fired = <<"micro", "tip", "fact">>
    /\ op.ret.interactionsShown = 2
    /\ timeouts = {}

\* C19: setCharacter(c) in an active session sets character to c, invokes
\* onPoseChange once and then onInteraction once with type micro, both for a pose
\* of c, and leaves currentPhase, usedInteractions and so the number of
\* verify-tagged keys as they are.
C19_SetCharacterDrawsOnce ==
    [][(op'.name = "setCharacter" /\ isActive) =>
          /\ character' = op'.arg
          /\ Len(calls') = 2
          /\ calls'[1].cb = "onPoseChange"
          /\ calls'[1].fullPose = op'.arg \o "-" \o calls'[1].pose
          /\ calls'[2].cb = "onInteraction"
          /\ calls'[2].type = "micro"
          /\ calls'[2].pose = calls'[1].pose
          /\ currentPhase' = currentPhase
          /\ usedInteractions' = usedInteractions
          /\ Cardinality(Tagged("verify", usedInteractions'))
                = Cardinality(Tagged("verify", usedInteractions))]_vars

C19_Witness ==
    /\ op.name = "setCharacter" /\ op.wasActive /\ op.arg = "gwynn"
    /\ op.prevPhase = "verify" /\ currentPhase = "verify"
    /\ Cardinality(Tagged("verify", usedInteractions)) = 1

\* C20: a pose, tip or fact reported through onInteraction comes from the list of
\* the current character when its category has one and from the default list
\* otherwise; a verification or a feature comes from the one flat list.
C20_DrawUsesCharacterList ==
    \A k \in 1..Len(calls) :
        calls[k].cb = "onInteraction" =>
            CASE calls[k].type = "micro" ->
                    \/ calls[k].pose \in Range(ListOf(content.microPoses))
                    \/ ListOf(content.microPoses) = << >> /\ calls[k].pose = "undefined"
              [] calls[k].type = "tip" ->
                    calls[k].message[1] \in Range(ListOf(content.tips))
              [] calls[k].type = "fact" ->
                    calls[k].message[1] \in Range(ListOf(content.funFacts))
              [] calls[k].type = "verify" ->
                    \E v \in Range(content.verifications) :
                        calls[k].message = <<v.question>> /\ calls[k].extra = <<"field", v.field>>
              [] calls[k].type = "discover" ->
                    \E f \in Range(content.features) :
                        calls[k].message = <<f.prompt>> /\ calls[k].extra = <<"feature", f.id>>

C20_Witness ==
    /\ character = "gwynn" /\ op.name = "tick" /\ op.fired = "fact"
    /\ "gwynn" \notin DOMAIN content.funFacts
    /\ \E k \in 1..Len(calls) :
          calls[k].cb = "onInteraction" /\ calls[k].message = <<"d-fact0">>

\* the list the draw of a tag reads, for the current character
ListFor(tag) ==
    CASE tag = "tip"      -> ListOf(content.tips)
      [] tag = "fact"     -> ListOf(content.funFacts)
      [] tag = "verify"   -> content.verifications
      [] tag = "discover" -> content.features

\* the category has a list for the current character or a default list
HasList(category) == character \in DOMAIN category \/ "default" \in DOMAIN category

\* C21: a draw for a character whose category has neither its entry nor a default
\* entry raises no error and invokes no callback.
C21_MissingListRaisesNoError ==
    /\ (op.name = "tick" /\ op.fired = "tip" /\ ~HasList(content.tips)) =>
           ~op.threw /\ calls = << >>
    /\ (op.name = "tick" /\ op.fired = "fact" /\ ~HasList(content.funFacts)) =>
           ~op.threw /\ calls = << >>
    /\ (op.wasActive /\ ~HasList(content.microPoses)
          /\ (op.name \in {"timeout", "setCharacter"}
                \/ (op.name = "tick" /\ op.fired = "micro"))) =>
           ~op.threw /\ calls = << >>

\* C22: loadContent(partial) makes every category of partial the category of the
\* content, leaves every other category as it was, and leaves usedInteractions,
\* currentPhase and isActive as they were.
C22_LoadContentReplacesWhole ==
    [][op'.name = "loadContent" =>
          /\ \E partial \in Partials :
                /\ DOMAIN content' = DOMAIN content \cup DOMAIN partial
                /\ \A k \in DOMAIN partial : content'[k] = partial[k]
                /\ \A k \in DOMAIN content \ DOMAIN partial : content'[k] = content[k]
          /\ UNCHANGED <<usedInteractions, currentPhase, isActive>>]_vars

C22_Witness ==
    /\ op.name = "loadContent" /\ isActive /\ currentPhase = "tip"
    /\ usedInteractions = {"tip-0"}
    /\ DOMAIN content.tips = {"gwynn"}
    /\ content.features = DefaultContent.features

\* C23: a tip, fact, verify or discover entry whose list has no unused position
\* sets currentPhase to that phase, invokes no callback and leaves
\* usedInteractions as it is; and no phase is entered twice in a session.
C23_ExhaustedEntryAdvances ==
    /\ [][(/\ op'.name = "tick" /\ op'.fired \in DedupTags /\ ~op'.threw
           /\ \A i \in 0..(Len(ListFor(op'.fired)) - 1) :
                 Key(op'.fired, i) \in usedInteractions) =>
             /\ currentPhase' = op'.fired
             /\ calls' = << >>
             /\ usedInteractions' = usedInteractions]_vars
    /\ [](\A i, j \in 1..Len(fired) : i # j => fired[i] # fired[j])

C23_Witness ==
    /\ op.name = "tick" /\ op.wasActive /\ op.fired = "none"
    /\ op.prevPhase = "verify" /\ currentPhase = "verify"
    /\ content.verifications = << >>
    /\ Tagged("verify", usedInteractions) = {}

\* C24: every onInteraction follows, in the same step, an onPoseChange with the
\* pose of the event: directly for micro, tip and fact, and with the one
\* onVerificationRequest / onFeatureDiscovery in between for verify and discover.
C24_PoseBeforeInteraction ==
    \A k \in 1..Len(calls) :
        calls[k].cb = "onInteraction" =>
            IF calls[k].type \in {"verify", "discover"}
            THEN /\ k >= 3
                 /\ calls[k - 1].cb = IF calls[k].type = "verify"
                                      THEN "onVerificationRequest" ELSE "onFeatureDiscovery"
                 /\ calls[k - 2].cb = "onPoseChange"
                 /\ calls[k - 2].pose = calls[k].pose
            ELSE /\ k >= 2
                 /\ calls[k - 1].cb = "onPoseChange"
                 /\ calls[k - 1].pose = calls[k].pose

C24_Witness ==
    /\ Len(calls) = 3
    /\ calls[1].cb = "onPoseChange" /\ calls[1].pose = "thinking"
    /\ calls[2].cb = "onVerificationRequest"
    /\ calls[3].cb = "onInteraction" /\ calls[3].type = "verify"

\* C25: a step invokes onVerificationRequest exactly if it emits an onInteraction
\* of type verify, once each, and the item handed over has the question and the
\* field of the event; the same for onFeatureDiscovery, discover, prompt and id.
C25_RequestMatchesInteraction ==
    LET at(cb)   == {k \in 1..Len(calls) : calls[k].cb = cb}
        of(type) == {k \in 1..Len(calls) : calls[k].cb = "onInteraction" /\ calls[k].type = type}
    IN  /\ Cardinality(at("onVerificationRequest")) = Cardinality(of("verify"))
        /\ Cardinality(of("verify")) <= 1
        /\ \A i \in at("onVerificationRequest") : \A j \in of("verify") :
              /\ calls[j].message = <<calls[i].item.question>>
              /\ calls[j].extra = <<"field", calls[i].item.field>>
        /\ Cardinality(at("onFeatureDiscovery")) = Cardinality(of("discover"))
        /\ Cardinality(of("discover")) <= 1
        /\ \A i \in at("onFeatureDiscovery") : \A j \in of("discover") :
              /\ calls[j].message = <<calls[i].item.prompt>>
              /\ calls[j].extra = <<"feature", calls[i].item.id>>

C25_Witness ==
    /\ op.name = "tick" /\ op.fired = "discover"
    /\ \E k \in 1..Len(calls) :
          calls[k].cb = "onFeatureDiscovery" /\ calls[k].item.id = "security_scan"

\* the elapsed times the partition is tried on: the bounds of every range, their
\* neighbours, and the elapsed time of the state
Samples ==
    {t \in UNION {{phases[i].min - 1, phases[i].min, phases[i].min + 1,
                   phases[i].max - 1, phases[i].max, phases[i].max + 1} : i \in 1..Len(phases)}
        : t >= 0}
    \cup {op.elapsed, DiscoverMin + DiscoverMin}

\* C26: the phase table is micro 0-5000, tip 5000-15000, fact 15000-30000, verify
\* 30000-60000, discover 60000-unbounded; every elapsed time t >= 0 is in the range
\* of exactly one phase; each max is the next min; the last has no upper bound.
C26_PhaseTablePartition ==
    /\ [i \in 1..Len(phases) |-> phases[i].name]
          = <<"micro", "tip", "fact", "verify", "discover">>
    /\ [i \in 1..Len(phases) |-> phases[i].min] = <<0, 5000, 15000, 30000, 60000>>
    /\ phases[1].min = 0
    /\ \A i \in 1..(Len(phases) - 1) :
          phases[i].bounded /\ phases[i].max = phases[i + 1].min
    /\ ~phases[Len(phases)].bounded
    /\ \A t \in Samples :
          Cardinality({i \in 1..Len(phases) :
                          phases[i].min <= t /\ (phases[i].bounded => t < phases[i].max)}) = 1

C26_Witness ==
    /\ op.name = "tick" /\ op.wasActive
    /\ op.elapsed = DiscoverMin /\ op.fired = "discover"

\* C27: start() invokes onPoseChange once, with pose thinking, and nothing else;
\* an onInteraction is invoked only by a timer callback or by setCharacter().
C27_StartEmitsThinkingOnly ==
    /\ op.name = "start" =>
          /\ Len(calls) = 1
          /\ calls[1].cb = "onPoseChange"
          /\ calls[1].pose = "thinking"
    /\ (\E k \in 1..Len(calls) : calls[k].cb = "onInteraction") =>
          op.name \in {"tick", "timeout", "setCharacter"}

C27_Witness ==
    /\ op.name = "start" /\ character = "gwynn"
    /\ calls = << [cb |-> "onPoseChange", fullPose |-> "gwynn-thinking", pose |-> "thinking"] >>
    /\ selected = << >>

\* C28: an onInteraction of type micro carries a pose that is an element of the
\* micro-pose list of the current character (its own or the default one) and a
\* null message.
C28_MicroPoseFromList ==
    \A k \in 1..Len(calls) :
        (calls[k].cb = "onInteraction" /\ calls[k].type = "micro") =>
            /\ calls[k].pose \in Range(ListOf(content.microPoses))
            /\ calls[k].message = << >>

\* C29: getElapsed() returns 0 if start() was never called and otherwise the
\* clock reading minus the reading taken by the latest start(); it changes nothing.
C29_GetElapsed ==
    /\ [](op.name = "getElapsed" =>
             op.ret.duration = IF started THEN now - startTime ELSE 0)
    /\ [][op'.name = "getElapsed" =>
             UNCHANGED <<now, character, startTime, currentPhase, usedInteractions,
                         intervalId, isActive, content, intervals, timeouts>>]_vars

C29_Witness ==
    /\ op.name = "getElapsed" /\ started /\ ~isActive
    /\ op.ret.duration = FactMin + TipMin

\* C30: in a session that is never stopped or restarted, with the clock moving on
\* and the ticks firing, currentPhase becomes discover and stays discover.
C30_EventuallyDiscoverForever ==
    started ~> [](currentPhase = "discover")

C30_Witness ==
    /\ isActive /\ currentPhase = "discover"
    /\ fired = <<"micro", "tip", "fact", "verify", "discover">>
    /\ op.name = "tick" /\ op.fired = "none"

\* C31: every onPoseChange carries '<character>-<pose>' for the character current
\* when it is invoked, and the pose alone as second argument; after
\* setCharacter(c) that character is c, also for the pose of stop().
C31_PoseNamesCurrentCharacter ==
    /\ \A k \in 1..Len(calls) :
          calls[k].cb = "onPoseChange" =>
              calls[k].fullPose = character \o "-" \o calls[k].pose
    /\ op.name = "setCharacter" => character = op.arg

C31_Witness ==
    /\ op.name = "stop" /\ op.wasActive /\ character = "gwynn"
    /\ calls = << [cb |-> "onPoseChange", fullPose |-> "gwynn-excited", pose |-> "excited"] >>

\* C32: a _pickUnused call that returns an item records the key of a position
\* that was not in usedInteractions before the call, and so adds one key.
C32_PickUnusedRecordsCandidate ==
    \A n \in 1..Len(pickLog) :
        pickLog[n].found =>
            /\ Key(pickPrefix, pickLog[n].idx) \notin pickLog[n].before
            /\ LET after == IF n < Len(pickLog) THEN pickLog[n + 1].before
                            ELSE usedInteractions
               IN  Cardinality(after) = Cardinality(pickLog[n].before) + 1

\* C33: stop() invokes onPoseChange once, with pose excited, and nothing else,
\* whether a session is active, already stopped or was never started.
C33_StopEmitsExcitedOnce ==
    op.name = "stop" =>
        /\ Len(calls) = 1
        /\ calls[1].cb = "onPoseChange"
        /\ calls[1].pose = "excited"

C33_Witness ==
    /\ op.name = "stop" /\ ~op.wasActive /\ ~started
    /\ Len(calls) = 1 /\ calls[1].pose = "excited"

\* C34: setCharacter(c) with no session active sets character to c, invokes no
\* callback and leaves usedInteractions, currentPhase and isActive as they are.
C34_SetCharacterInactive ==
    [][(op'.name = "setCharacter" /\ ~isActive) =>
          /\ character' = op'.arg
          /\ calls' = << >>
          /\ UNCHANGED <<usedInteractions, currentPhase, isActive>>]_vars

C34_Witness ==
    /\ op.name = "setCharacter" /\ ~op.wasActive /\ lastStop.done
    /\ op.arg = "gwynn" /\ character = "gwynn"
    /\ op.prevUsed = 2 /\ currentPhase = "fact"

\* C35: a draw never changes the array it draws from, and of the manager's state
\* it changes usedInteractions only.
C35_DrawKeepsList ==
    [][/\ pickArr' = pickArr
       /\ UNCHANGED <<character, startTime, currentPhase, intervalId, isActive, content>>]_vars

C35_Witness ==
    /\ pickArr = <<"a", "b">> /\ Len(pickLog) = 2
    /\ pickLog[1].found /\ pickLog[2].found
    /\ Cardinality(usedInteractions) = 2

\* C36: usedInteractions holds at most one key of each tag and at most four keys.
C36_OneKeyPerTag ==
    /\ \A tag \in DedupTags : Cardinality(Tagged(tag, usedInteractions)) <= 1
    /\ Cardinality(usedInteractions) <= Cardinality(DedupTags)
    /\ usedInteractions = UNION {Tagged(tag, usedInteractions) : tag \in DedupTags}

C36_Witness ==
    /\ Cardinality(usedInteractions) = 4
    /\ Cardinality(intervals) = 2 /\ isActive
    /\ op.name = "setCharacter"

\* C37: the interactionsShown that stop() returns is the number of onInteraction
\* events of type tip, fact, verify or discover delivered since the latest
\* start(), and a key is recorded only for a draw whose event was delivered.
C37_CountEqualsDelivered ==
    /\ op.name = "stop" => op.ret.interactionsShown = Len(selected)
    /\ Cardinality(usedInteractions) <= Len(selected)

\* C38: the duration stop() returns is what getElapsed() returns at that moment:
\* 0 before any start(), the clock reading minus the start time after.
C38_DurationIsElapsed ==
    op.name = "stop" =>
        op.ret.duration = IF started THEN now - startTime ELSE 0

\* C39: start() leaves currentPhase none; no step but a tick and start() changes
\* currentPhase; a tick processed in an active session leaves it a phase.
C39_NoneUntilFirstTick ==
    /\ [](isActive => (currentPhase = "none" <=> fired = << >>))
    /\ [](op.name = "start" => currentPhase = "none" /\ fired = << >>)
    /\ [][op'.name \notin {"tick", "start"} => currentPhase' = currentPhase]_vars
    /\ [][(op'.name = "tick" /\ isActive) => currentPhase' \in PhaseNames]_vars

C39_Witness ==
    /\ op.name = "timeout" /\ op.wasActive /\ Len(calls) = 2
    /\ currentPhase = "none" /\ isActive
    /\ \E i \in intervals : i.due = 0

\* C40: when a callback throws during a phase-entry action, currentPhase is
\* already the new phase and the key of the item drawn is already in
\* usedInteractions; and no phase is entered twice in a session.
C40_ThrowLeavesTransitionCommitted ==
    /\ [][op'.raised # "" =>
             /\ currentPhase' = op'.fired
             /\ op'.fired \in DedupTags =>
                   /\ Cardinality(Tagged(op'.fired, usedInteractions'))
                         = Cardinality(Tagged(op'.fired, usedInteractions)) + 1
                   /\ usedInteractions \subseteq usedInteractions']_vars
    /\ [](\A i, j \in 1..Len(fired) : i < j => fired[i] # fired[j])

C40_Witness ==
    /\ op.name = "tick" /\ op.wasActive /\ op.fired = "none" /\ op.raised = ""
    /\ currentPhase = "verify" /\ op.prevPhase = "verify"
    /\ "verify-0" \in usedInteractions
    /\ \A k \in 1..Len(selected) : selected[k][1] # "verify"

====
